---- MODULE Spec2Model ----
(***************************************************************************)
(* Model of the quant-sim backend: the KRXService facade over the pykrx    *)
(* market-data provider (validators, stock list, stock prices, KOSPI       *)
(* index) and the FastAPI routers in front of it.                          *)
(*                                                                         *)
(* Python strings that the code inspects character by character (the date  *)
(* strings) are sequences of one-character strings.  A Python call either  *)
(* returns a value or raises an exception; both are values here:           *)
(* Ret(v) and Raise(type, msg).  Messages are sequences of tokens, so that *)
(* an f-string that embeds str(e) is a concatenation.                      *)
(***************************************************************************)
EXTENDS Integers, Sequences, FiniteSets, TLC

VARIABLES
    inv,      \* the invocation under way: the operation and its arguments
    done,     \* how many times the invocation has been executed
    result,   \* outcome of the last execution: Ret(..), Raise(..) or an HTTP response
    log,      \* provider calls issued by the last execution, in order, with outcomes
    lookups,  \* provider calls issued by all executions so far
    waiting,  \* the server's event loop: requests received and not yet started
    running   \* the server's event loop: the handler its thread is executing

vars == <<inv, done, result, log, lookups, waiting, running>>

----------------------------------------------------------------------------
(* Bounds of the model *)

MaxTail == 4       \* date strings: a 4-character head followed by at most MaxTail characters
MaxTickers == 3    \* length of the provider's ticker listing
MaxRuns == 2       \* repeated invocations of validate_stock_code with one code
MaxWaiting == 2    \* requests received by the server and not yet started

----------------------------------------------------------------------------
(* Python values *)

Ret(v) == [kind |-> "return", val |-> v]
Raise(t, m) == [kind |-> "raise", type |-> t, msg |-> m]
HTTPException(status_code, detail) ==
    [kind |-> "raise", type |-> "HTTPException", status |-> status_code, msg |-> detail]

\* issubclass(t, base) for the exception types that occur
IsSubclass(t, base) ==
    \/ base = "BaseException"
    \/ base = "Exception"
    \/ t = base

NoResult == [kind |-> "none"]

----------------------------------------------------------------------------
(* datetime.strptime(date_str, "%Y%m%d") *)

Digits == {"0", "1", "2", "3", "4", "5", "6", "7", "8", "9"}
NonZero == Digits \ {"0"}

DigitVal(c) ==
    CASE c = "0" -> 0 [] c = "1" -> 1 [] c = "2" -> 2 [] c = "3" -> 3
      [] c = "4" -> 4 [] c = "5" -> 5 [] c = "6" -> 6 [] c = "7" -> 7
      [] c = "8" -> 8 [] c = "9" -> 9

RECURSIVE ToInt(_)
ToInt(s) == IF s = <<>> THEN 0
            ELSE 10 * ToInt(SubSeq(s, 1, Len(s) - 1)) + DigitVal(s[Len(s)])

\* int(" 7") = 7: int() strips the blank the %d directive may match
StripInt(s) == IF s # <<>> /\ Head(s) = " " THEN ToInt(Tail(s)) ELSE ToInt(s)

\* s[i] exists and lies in the character class
At(s, i, class) == i <= Len(s) /\ s[i] \in class

\* %Y is \d\d\d\d
MatchY(s) == \A i \in 1..4 : At(s, i, Digits)

\* %m is 1[0-2]|0[1-9]|[1-9]: the lengths the directive can take at i, in the
\* order the regex engine tries the alternatives
MatchM(s, i) ==
    (IF At(s, i, {"1"}) /\ At(s, i + 1, {"0", "1", "2"}) THEN <<2>> ELSE <<>>)
    \o (IF At(s, i, {"0"}) /\ At(s, i + 1, NonZero) THEN <<2>> ELSE <<>>)
    \o (IF At(s, i, NonZero) THEN <<1>> ELSE <<>>)

\* %d is 3[0-1]|[1-2]\d|0[1-9]|[1-9]| [1-9]
MatchD(s, i) ==
    (IF At(s, i, {"3"}) /\ At(s, i + 1, {"0", "1"}) THEN <<2>> ELSE <<>>)
    \o (IF At(s, i, {"1", "2"}) /\ At(s, i + 1, Digits) THEN <<2>> ELSE <<>>)
    \o (IF At(s, i, {"0"}) /\ At(s, i + 1, NonZero) THEN <<2>> ELSE <<>>)
    \o (IF At(s, i, NonZero) THEN <<1>> ELSE <<>>)
    \o (IF At(s, i, {" "}) /\ At(s, i + 1, NonZero) THEN <<2>> ELSE <<>>)

\* format_regex.match(data_string): the first way, in the engine's backtracking
\* order, to match %Y%m%d at the start of s; <<>> when there is none, else
\* <<length of %m, length of %d>>
RegexMatch(s) ==
    LET first(ms) == IF ms = <<>> THEN <<>>
                     ELSE <<Head(ms), Head(MatchD(s, 5 + Head(ms)))>>
    IN  IF ~MatchY(s) THEN <<>>
        ELSE first(SelectSeq(MatchM(s, 5), LAMBDA m : MatchD(s, 5 + m) # <<>>))

IsLeap(y) == (y % 4 = 0 /\ y % 100 # 0) \/ y % 400 = 0

DaysInMonth(y, m) ==
    IF m = 2 THEN (IF IsLeap(y) THEN 29 ELSE 28)
    ELSE IF m \in {4, 6, 9, 11} THEN 30 ELSE 31

\* datetime.date(year, month, day) accepts the triple (MINYEAR is 1)
DateOk(y, m, d) == y >= 1 /\ m \in 1..12 /\ d \in 1..DaysInMonth(y, m)

strptime(s) ==
    LET date(y, m, d) ==
            IF DateOk(y, m, d)
            THEN Ret([year |-> y, month |-> m, day |-> d])
            ELSE Raise("ValueError", <<"day is out of range for month">>)
        convert(found) ==
            IF found = <<>>
            THEN Raise("ValueError", <<"does not match format">>)
            ELSE IF Len(s) # 4 + found[1] + found[2]
            THEN Raise("ValueError", <<"unconverted data remains">>)
            ELSE date(ToInt(SubSeq(s, 1, 4)),
                      ToInt(SubSeq(s, 5, 4 + found[1])),
                      StripInt(SubSeq(s, 5 + found[1], 4 + found[1] + found[2])))
    IN  convert(RegexMatch(s))

\* except-clause mutant: the handler that catches nothing that strptime raises
validate_date_format_uncaught(date_str) ==
    LET try(r) == IF r.kind = "raise" THEN r ELSE Ret(TRUE)
    IN  try(strptime(date_str))

\* try: strptime(..); return True / except ValueError: return False
validate_date_format(date_str) ==
    LET try(r) == IF r.kind = "raise" /\ IsSubclass(r.type, "ValueError")
                  THEN Ret(FALSE)
                  ELSE IF r.kind = "raise" THEN r
                  ELSE Ret(TRUE)
    IN  try(strptime(date_str))

----------------------------------------------------------------------------
(* The provider (pykrx.stock).  Each call's outcome is decided by the       *)
(* provider's state w, which the code cannot see: whether a call fails,     *)
(* the name a ticker resolves to, the trading days it has rows for.         *)

ProviderErrors == {"ConnectionError", "KeyError"}

ProviderError(e) == Raise(e, <<e>>)

NameOutcomes == {Ret("Samsung"), Ret("")} \cup {ProviderError(e) : e \in ProviderErrors}

Codes == {"005930", "999999"}

\* the provider's trading calendar, as YYYYMMDD numbers
Calendar == {20240102, 20240115, 20240131}

\* a provider row's values in tenths (770005 is 77000.5); nan marks a row whose
\* values are NaN
Quotes ==
    { [open |-> 770005, high |-> 775009, low |-> 760000, close |-> 768001, volume |-> 1500, nan |-> FALSE],
      [open |-> -15, high |-> 19, low |-> -29, close |-> 10, volume |-> 0, nan |-> FALSE],
      [open |-> 0, high |-> 0, low |-> 0, close |-> 0, volume |-> 0, nan |-> TRUE] }

Call(fn, args, out) == [fn |-> fn, args |-> args, out |-> out]

\* the provider reads its date arguments as YYYYMMDD
ProviderDate(s) ==
    /\ Len(s) = 8
    /\ \A i \in 1..8 : s[i] \in Digits
    /\ DateOk(ToInt(SubSeq(s, 1, 4)), ToInt(SubSeq(s, 5, 6)), ToInt(SubSeq(s, 7, 8)))

Min(S) == CHOOSE x \in S : \A y \in S : x <= y

RECURSIVE Ascending(_)
Ascending(S) == IF S = {} THEN <<>> ELSE <<Min(S)>> \o Ascending(S \ {Min(S)})

\* the rows of a date-indexed frame: one per trading day of [fromdate, todate],
\* in date order
Frame(fromdate, todate, w) ==
    LET rows(asc) == [i \in 1..Len(asc) |-> [date |-> asc[i], row |-> w.quote]]
        between(lo, hi) == rows(Ascending({d \in w.trading : lo <= d /\ d <= hi}))
    IN  between(ToInt(fromdate), ToInt(todate))

get_market_ticker_list(date, market, w) == w.listing

get_market_ohlcv_by_date(fromdate, todate, ticker, w) ==
    IF w.fetch # "ok" THEN ProviderError(w.fetch)
    ELSE IF ~(ProviderDate(fromdate) /\ ProviderDate(todate))
    THEN (IF w.lenient THEN Ret(<<>>) ELSE Raise("ValueError", <<"bad date">>))
    ELSE Ret(Frame(fromdate, todate, w))

\* the index frame: each row also carries the labels of its columns, which
\* include the volume column only for the index series that have one
get_index_ohlcv_by_date(fromdate, todate, ticker, w) ==
    LET labels == IF w.has_volume THEN {"close", "volume"} ELSE {"close"}
        labelled(o) ==
            IF o.kind = "raise" THEN o
            ELSE Ret([i \in 1..Len(o.val) |->
                        [date |-> o.val[i].date, row |-> o.val[i].row, columns |-> labels]])
    IN  labelled(get_market_ohlcv_by_date(fromdate, todate, ticker, w))

----------------------------------------------------------------------------
(* KRXService *)

\* Python truthiness of a str
bool(name) == name # ""

\* mutant: tests the name against None instead of its truthiness
validate_stock_code_not_none(code, w) ==
    LET o == w.vname IN
    [res |-> IF o.kind = "raise" THEN Ret(FALSE) ELSE Ret(TRUE),
     log |-> <<Call("get_market_ticker_name", <<code>>, o)>>]

\* mutant: a failed name lookup is issued a second time
validate_stock_code_retry(code, w) ==
    LET o == w.vname
        c == Call("get_market_ticker_name", <<code>>, o)
    IN  [res |-> IF o.kind = "raise" THEN Ret(FALSE) ELSE Ret(bool(o.val)),
         log |-> IF o.kind = "raise" THEN <<c, c>> ELSE <<c>>]

validate_stock_code(code, w) ==
    LET o == w.vname IN
    [res |-> IF o.kind = "raise" /\ IsSubclass(o.type, "BaseException")
             THEN Ret(FALSE)
             ELSE Ret(bool(o.val)),
     log |-> <<Call("get_market_ticker_name", <<code>>, o)>>]

\* mutant: the except clause re-raises the exception it caught
Rewrap_reraise(prefix, o) == o

\* the facade's except clause: raise Exception(f"{prefix}{str(e)}")
Rewrap(prefix, o) ==
    IF o.kind = "raise" /\ IsSubclass(o.type, "Exception")
    THEN Raise("Exception", <<prefix>> \o o.msg)
    ELSE o

\* mutant: the loop leaves at the first failed name lookup
RECURSIVE ListLoop_break(_, _, _)
ListLoop_break(tickers, w, i) ==
    IF i > Len(tickers) THEN [stocks |-> <<>>, log |-> <<>>]
    ELSE LET o == w.names[i]
             c == Call("get_market_ticker_name", <<tickers[i]>>, o)
         IN  IF o.kind = "raise"
             THEN [stocks |-> <<>>, log |-> <<c>>]
             ELSE LET rest == ListLoop_break(tickers, w, i + 1)
                  IN  [stocks |-> <<[code |-> tickers[i], name |-> o.val]>> \o rest.stocks,
                       log |-> <<c>> \o rest.log]

\* for ticker in tickers[i..]: the StockInfo records appended and the calls made
RECURSIVE ListLoop(_, _, _)
ListLoop(tickers, w, i) ==
    IF i > Len(tickers) THEN [stocks |-> <<>>, log |-> <<>>]
    ELSE LET o == w.names[i]
             c == Call("get_market_ticker_name", <<tickers[i]>>, o)
             rest == ListLoop(tickers, w, i + 1)
         IN  IF o.kind = "raise" /\ IsSubclass(o.type, "Exception")
             THEN [stocks |-> rest.stocks, log |-> <<c>> \o rest.log]
             ELSE [stocks |-> <<[code |-> tickers[i], name |-> o.val]>> \o rest.stocks,
                   log |-> <<c>> \o rest.log]

\* mutant: count taken from the provider's listing instead of the stocks kept
StockListResponse_listed(tickers, stocks) ==
    [count |-> Len(tickers), stocks |-> stocks]

StockListResponse(tickers, stocks) ==
    [count |-> Len(stocks), stocks |-> stocks]

get_stock_list(w) ==
    LET looped(o, c, loop) ==
            [res |-> Ret(StockListResponse(o.val, loop.stocks)),
             log |-> <<c>> \o loop.log]
        listed(o, c) ==
            IF o.kind = "raise"
            THEN [res |-> Rewrap("stock list failed: ", o), log |-> <<c>>]
            ELSE looped(o, c, ListLoop(o.val, w, 1))
        try(o) == listed(o, Call("get_market_ticker_list", <<"today", "KOSPI">>, o))
    IN  try(get_market_ticker_list("today", "KOSPI", w))

\* mutant: the value is rounded to the nearest integer
int_round(x) == (x + 5) \div 10

\* int(x) of a value in tenths: truncation toward zero
int(x) == IF x >= 0 THEN x \div 10 ELSE -((-x) \div 10)

\* the StockPrice of one frame entry, or the ValueError int() raises on NaN
StockPrice(e) ==
    IF e.row.nan
    THEN Raise("ValueError", <<"cannot convert float NaN to integer">>)
    ELSE Ret([date |-> e.date, open |-> int(e.row.open), high |-> int(e.row.high),
              low |-> int(e.row.low), close |-> int(e.row.close),
              volume |-> int(e.row.volume)])

\* mutant: the fetch is issued with the two dates exchanged
FetchArgs_swapped(code, start_date, end_date) == <<end_date, start_date, code>>

\* the arguments of stock.get_market_ohlcv_by_date(start_date, end_date, code)
FetchArgs(code, start_date, end_date) == <<start_date, end_date, code>>

\* mutant: an empty frame is not rejected
EmptyCheck_absent(df) == FALSE

\* if df.empty
EmptyCheck(df) == df = <<>>

\* mutant: an empty name is not rejected
NameCheck_absent(name) == FALSE

\* if not name
NameCheck(name) == ~bool(name)

get_stock_price(code, start_date, end_date, w) ==
    LET prefix == "stock price failed: "
        \* the loop over df.iterrows() and the response
        converted(name, conv, bad, calls) ==
            IF bad # {}
            THEN [res |-> Rewrap(prefix, conv[Min(bad)]), log |-> calls]
            ELSE [res |-> Ret([code |-> code, name |-> name,
                               prices |-> [i \in 1..Len(conv) |-> conv[i].val]]),
                  log |-> calls]
        convert(name, conv, calls) ==
            converted(name, conv, {i \in 1..Len(conv) : conv[i].kind = "raise"}, calls)
        \* after the fetch
        fetched(name, df, calls) ==
            IF df.kind = "raise"
            THEN [res |-> Rewrap(prefix, df), log |-> calls]
            ELSE IF EmptyCheck(df.val)
            THEN [res |-> Rewrap(prefix, Raise("Exception", <<"no price data in range">>)),
                  log |-> calls]
            ELSE convert(name, [i \in 1..Len(df.val) |-> StockPrice(df.val[i])], calls)
        fetch(name, a, df, c1) ==
            fetched(name, df, <<c1, Call("get_market_ohlcv_by_date", a, df)>>)
        \* after the name lookup
        named(o, a, c1) ==
            IF o.kind = "raise"
            THEN [res |-> Rewrap(prefix, o), log |-> <<c1>>]
            ELSE IF NameCheck(o.val)
            THEN [res |-> Rewrap(prefix, Raise("Exception", <<"code not found: ", code>>)),
                  log |-> <<c1>>]
            ELSE fetch(o.val, a, get_market_ohlcv_by_date(a[1], a[2], a[3], w), c1)
    IN  named(w.name, FetchArgs(code, start_date, end_date),
              Call("get_market_ticker_name", <<code>>, w.name))

\* mutant: the volume is never read from the row
IndexPrice_without_volume(e, has_volume) ==
    Ret([date |-> e.date, close |-> e.row.close, volume |-> <<>>])

\* the IndexPrice of one frame entry; volume is <<v>>, or <<>> for None;
\* has_volume is '거래량' in row
IndexPrice(e, has_volume) ==
    IF e.row.nan /\ has_volume
    THEN Raise("ValueError", <<"cannot convert float NaN to integer">>)
    ELSE Ret([date |-> e.date, close |-> e.row.close,
              volume |-> IF has_volume THEN <<int(e.row.volume)>> ELSE <<>>])

get_kospi_index(start_date, end_date, w) ==
    LET prefix == "KOSPI index failed: "
        a == <<start_date, end_date, "1001">>
        converted(conv, bad, calls) ==
            IF bad # {}
            THEN [res |-> Rewrap(prefix, conv[Min(bad)]), log |-> calls]
            ELSE [res |-> Ret([index_name |-> "KOSPI", index_code |-> "1001",
                               prices |-> [i \in 1..Len(conv) |-> conv[i].val]]),
                  log |-> calls]
        convert(conv, calls) ==
            converted(conv, {i \in 1..Len(conv) : conv[i].kind = "raise"}, calls)
        fetched(df, calls) ==
            IF df.kind = "raise"
            THEN [res |-> Rewrap(prefix, df), log |-> calls]
            ELSE IF df.val = <<>>
            THEN [res |-> Rewrap(prefix, Raise("Exception", <<"no KOSPI data in range">>)),
                  log |-> calls]
            ELSE convert([i \in 1..Len(df.val) |-> IndexPrice(df.val[i], "volume" \in df.val[i].columns)],
                         calls)
        fetch(df) == fetched(df, <<Call("get_index_ohlcv_by_date", a, df)>>)
    IN  fetch(get_index_ohlcv_by_date(start_date, end_date, "1001", w))

----------------------------------------------------------------------------
(* FastAPI routers *)

Response(status_code, detail) ==
    [kind |-> "response", status |-> status_code, detail |-> detail]

\* Query(..., regex=r"^\d{8}$"): the parameter is required and must match
QueryOk(p) ==
    /\ p.present
    /\ Len(p.value) = 8
    /\ \A i \in 1..8 : p.value[i] \in Digits

\* the request validation FastAPI runs before the handler: the query
\* parameters it rejects, in declaration order
RequestValidation(start_date, end_date) ==
    (IF QueryOk(start_date) THEN <<>> ELSE <<"start_date">>)
    \o (IF QueryOk(end_date) THEN <<>> ELSE <<"end_date">>)

\* what FastAPI answers for a handler's outcome
Respond(o) ==
    IF o.kind = "return" THEN [kind |-> "response", status |-> 200, body |-> o.val]
    ELSE IF o.type = "HTTPException" THEN Response(o.status, o.msg)
    ELSE Response(500, <<"Internal Server Error">>)

\* mutant: no "except HTTPException: raise" before "except Exception"
stocks_price_except_all(o) ==
    IF o.kind = "raise"
    THEN HTTPException(500, <<"stock price failed: ">> \o o.msg)
    ELSE o

\* the except clauses of the price handler
stocks_price_except(o) ==
    IF o.kind = "raise" /\ IsSubclass(o.type, "HTTPException") THEN o
    ELSE IF o.kind = "raise" /\ IsSubclass(o.type, "Exception")
    THEN HTTPException(500, <<"stock price failed: ">> \o o.msg)
    ELSE o

\* mutant: the stock code is validated before the dates
stocks_price_try_code_first(code, start_date, end_date, w) ==
    LET try(v1, v2, vc, r) ==
        IF vc.res.kind = "raise" THEN vc
        ELSE IF ~vc.res.val
        THEN [res |-> HTTPException(404, <<"stock code not found: ", code>>), log |-> vc.log]
        ELSE IF v1.kind = "raise" THEN [res |-> v1, log |-> vc.log]
        ELSE IF ~v1.val
        THEN [res |-> HTTPException(400, <<"bad start date format">>), log |-> vc.log]
        ELSE IF v2.kind = "raise" THEN [res |-> v2, log |-> vc.log]
        ELSE IF ~v2.val
        THEN [res |-> HTTPException(400, <<"bad end date format">>), log |-> vc.log]
        ELSE [res |-> r.res, log |-> vc.log \o r.log]
    IN  try(validate_date_format(start_date), validate_date_format(end_date),
            validate_stock_code(code, w), get_stock_price(code, start_date, end_date, w))

\* the try block of the price handler
stocks_price_try(code, start_date, end_date, w) ==
    LET try(v1, v2, vc, r) ==
        IF v1.kind = "raise" THEN [res |-> v1, log |-> <<>>]
        ELSE IF ~v1.val
        THEN [res |-> HTTPException(400, <<"bad start date format">>), log |-> <<>>]
        ELSE IF v2.kind = "raise" THEN [res |-> v2, log |-> <<>>]
        ELSE IF ~v2.val
        THEN [res |-> HTTPException(400, <<"bad end date format">>), log |-> <<>>]
        ELSE IF vc.res.kind = "raise" THEN vc
        ELSE IF ~vc.res.val
        THEN [res |-> HTTPException(404, <<"stock code not found: ", code>>), log |-> vc.log]
        ELSE [res |-> r.res, log |-> vc.log \o r.log]
    IN  try(validate_date_format(start_date), validate_date_format(end_date),
            validate_stock_code(code, w), get_stock_price(code, start_date, end_date, w))

\* GET /api/stocks/{code}/price
stocks_get_stock_price(code, start_date, end_date, w) ==
    LET handled(t) == [res |-> Respond(stocks_price_except(t.res)), log |-> t.log]
        validated(errs) ==
            IF errs # <<>> THEN [res |-> Response(422, errs), log |-> <<>>]
            ELSE handled(stocks_price_try(code, start_date.value, end_date.value, w))
    IN  validated(RequestValidation(start_date, end_date))

\* GET /api/stocks/list
stocks_get_stock_list(w) ==
    LET except(o) == IF o.kind = "raise" /\ IsSubclass(o.type, "Exception")
                     THEN HTTPException(500, <<"stock list failed: ">> \o o.msg)
                     ELSE o
        handled(r) == [res |-> Respond(except(r.res)), log |-> r.log]
    IN  handled(get_stock_list(w))

\* mutant: the handler has no except clauses
market_kospi_except_none(o) == o

\* the except clauses of the KOSPI handler
market_kospi_except(o) ==
    IF o.kind = "raise" /\ IsSubclass(o.type, "HTTPException") THEN o
    ELSE IF o.kind = "raise" /\ IsSubclass(o.type, "Exception")
    THEN HTTPException(500, <<"KOSPI index failed: ">> \o o.msg)
    ELSE o

\* the try block of the KOSPI handler
market_kospi_try(start_date, end_date, w) ==
    LET try(v1, v2) ==
        IF v1.kind = "raise" THEN [res |-> v1, log |-> <<>>]
        ELSE IF ~v1.val
        THEN [res |-> HTTPException(400, <<"bad start date format">>), log |-> <<>>]
        ELSE IF v2.kind = "raise" THEN [res |-> v2, log |-> <<>>]
        ELSE IF ~v2.val
        THEN [res |-> HTTPException(400, <<"bad end date format">>), log |-> <<>>]
        ELSE get_kospi_index(start_date, end_date, w)
    IN  try(validate_date_format(start_date), validate_date_format(end_date))

\* GET /api/market/kospi
market_get_kospi_index(start_date, end_date, w) ==
    LET handled(t) == [res |-> Respond(market_kospi_except(t.res)), log |-> t.log]
        validated(errs) ==
            IF errs # <<>> THEN [res |-> Response(422, errs), log |-> <<>>]
            ELSE handled(market_kospi_try(start_date.value, end_date.value, w))
    IN  validated(RequestValidation(start_date, end_date))

\* datetime.now(kst): the clock's UTC reading in Asia/Seoul, nine hours ahead
\* all year (weekday 0 is Monday)
now_kst(clock) ==
    IF clock.hour + 9 >= 24
    THEN [clock EXCEPT !.hour = clock.hour + 9 - 24, !.weekday = (clock.weekday + 1) % 7]
    ELSE [clock EXCEPT !.hour = clock.hour + 9]

\* now.replace(hour=h, minute=m, second=0, microsecond=0)
replace(now, h, m) ==
    [now EXCEPT !.hour = h, !.minute = m, !.second = 0, !.microsecond = 0]

\* a <= b for two datetimes of one zone: the date (here the weekday, equal
\* whenever the handler compares) and then the time fields in order
datetime_le(a, b) ==
    /\ a.weekday = b.weekday
    /\ \/ a.hour < b.hour
       \/ a.hour = b.hour /\ a.minute < b.minute
       \/ a.hour = b.hour /\ a.minute = b.minute /\ a.second < b.second
       \/ /\ a.hour = b.hour /\ a.minute = b.minute /\ a.second = b.second
          /\ a.microsecond <= b.microsecond

\* mutant: the closing instant is outside the window
is_market_time_before_close(now) ==
    /\ datetime_le(replace(now, 9, 0), now)
    /\ ~datetime_le(replace(now, 15, 30), now)

\* market_open <= now <= market_close
is_market_time(now) ==
    /\ datetime_le(replace(now, 9, 0), now)
    /\ datetime_le(now, replace(now, 15, 30))

\* now.weekday() < 5
is_weekday(now) == now.weekday < 5

\* now.strftime("%Y-%m-%d %H:%M:%S"): the reading without its microseconds
strftime(now) ==
    [weekday |-> now.weekday, hour |-> now.hour, minute |-> now.minute,
     second |-> now.second]

\* GET /api/market/status; w is the provider's state, which the handler
\* never reads
market_get_market_status(clock, w) ==
    LET body(now) ==
            [status |-> IF is_market_time(now) /\ is_weekday(now)
                        THEN "OPEN" ELSE "CLOSED",
             current_time |-> strftime(now),
             market_open |-> "09:00", market_close |-> "15:30",
             timezone |-> "Asia/Seoul"]
        except(o) == IF o.kind = "raise" /\ IsSubclass(o.type, "Exception")
                     THEN HTTPException(500, <<"market status failed: ">> \o o.msg)
                     ELSE o
    IN  [res |-> Respond(except(Ret(body(now_kst(clock))))), log |-> <<>>]

\* mutant: the health check probes the provider
health_check_probing(clock, w) ==
    LET probed(o) ==
            [res |-> Respond(Ret([status |-> IF o.kind = "raise" THEN "unhealthy"
                                             ELSE "healthy",
                                  timestamp |-> clock, version |-> "1.0.0"])),
             log |-> <<Call("get_market_ticker_list", <<"today", "KOSPI">>, o)>>]
    IN  probed(get_market_ticker_list("today", "KOSPI", w))

\* GET /health; timestamp is datetime.now().isoformat(), the clock's reading;
\* w is the provider's state, which the handler never reads
health_check(clock, w) ==
    [res |-> Respond(Ret([status |-> "healthy", timestamp |-> clock,
                          version |-> "1.0.0"])),
     log |-> <<>>]

----------------------------------------------------------------------------
(* Inputs *)

TailChars == {"0", "1", "2", "3", "9", " ", "-"}

Tails == UNION {[1..n -> TailChars] : n \in 0..MaxTail}

Heads == { <<"2", "0", "2", "3">>, <<"2", "0", "2", "4">>, <<"1", "9", "0", "0">>,
           <<"2", "0", "0", "0">>, <<"0", "0", "0", "0">>, <<"2", "0", "-", "3">> }

DateStrings == {h \o t : h \in Heads, t \in Tails} \cup {<<>>, <<"b", "a", "d">>}

\* the date strings of requests and of direct facade calls
D20240101 == <<"2", "0", "2", "4", "0", "1", "0", "1">>
D20240115 == <<"2", "0", "2", "4", "0", "1", "1", "5">>
D20240131 == <<"2", "0", "2", "4", "0", "1", "3", "1">>
D20231301 == <<"2", "0", "2", "3", "1", "3", "0", "1">>
D2023011 == <<"2", "0", "2", "3", "0", "1", "1">>
Dbad == <<"b", "a", "d">>

RangeDates == {D20240101, D20240115, D20240131, D20231301, D2023011, Dbad}

Absent == [present |-> FALSE, value |-> <<>>]
Present(s) == [present |-> TRUE, value |-> s]

QueryParams == {Present(s) : s \in RangeDates} \cup {Absent}

Queries == [start_date : QueryParams, end_date : QueryParams]

\* readings of the system clock (UTC): around 09:00 and 15:30 in Seoul
\* (00:00 and 06:30 UTC) and around Seoul's midnight (15:00 UTC)
Clocks ==
    [weekday : 0..6, hour : {0, 1, 6, 7, 14, 15, 23}, minute : {0, 29, 30, 31, 59},
     second : {0, 1, 59}, microsecond : {0, 1, 999999}]

Listings ==
    {Ret(t) : t \in UNION {[1..n -> Codes] : n \in 0..MaxTickers}}
    \cup {ProviderError(e) : e \in ProviderErrors}

FetchWorlds ==
    [fetch : {"ok"} \cup ProviderErrors, trading : SUBSET Calendar, quote : Quotes,
     lenient : BOOLEAN]

Invocations ==
    {[op |-> "validate_date_format", date_str |-> s] : s \in DateStrings}
    \cup {[op |-> "validate_stock_code", code |-> c] : c \in Codes}
    \cup {[op |-> "get_stock_list"], [op |-> "GET /api/stocks/list"]}
    \cup {[op |-> "get_stock_price", code |-> c, start_date |-> s, end_date |-> e] :
            c \in Codes, s \in RangeDates, e \in RangeDates}
    \cup {[op |-> "get_kospi_index", start_date |-> s, end_date |-> e] :
            s \in RangeDates, e \in RangeDates}
    \cup {[op |-> "GET /api/stocks/{code}/price", code |-> c, query |-> q] :
            c \in Codes, q \in Queries}
    \cup {[op |-> "GET /api/market/kospi", query |-> q] : q \in Queries}
    \cup {[op |-> "GET /api/market/status", clock |-> c] : c \in Clocks}
    \cup {[op |-> "GET /health", clock |-> c] : c \in Clocks}

----------------------------------------------------------------------------
(* Operations: one execution of the invocation *)

Finish(r) ==
    /\ result' = r.res
    /\ log' = r.log
    /\ lookups' = lookups + Len(r.log)
    /\ done' = done + 1
    /\ UNCHANGED <<inv, waiting, running>>

Call_validate_date_format ==
    /\ inv.op = "validate_date_format"
    /\ done = 0
    /\ Finish([res |-> validate_date_format(inv.date_str), log |-> <<>>])

Call_validate_stock_code ==
    /\ inv.op = "validate_stock_code"
    /\ done < MaxRuns
    /\ \E w \in [vname : NameOutcomes] :
          Finish(validate_stock_code(inv.code, w))

Call_get_stock_list ==
    /\ inv.op = "get_stock_list"
    /\ done = 0
    /\ \E w \in [listing : Listings, names : [1..MaxTickers -> NameOutcomes]] :
          Finish(get_stock_list(w))

Call_get_stock_price ==
    /\ inv.op = "get_stock_price"
    /\ done = 0
    /\ \E n \in NameOutcomes, f \in FetchWorlds :
          Finish(get_stock_price(inv.code, inv.start_date, inv.end_date,
                                 [name |-> n, fetch |-> f.fetch, trading |-> f.trading,
                                  quote |-> f.quote, lenient |-> f.lenient]))

Call_get_kospi_index ==
    /\ inv.op = "get_kospi_index"
    /\ done = 0
    /\ \E f \in FetchWorlds, v \in BOOLEAN :
          Finish(get_kospi_index(inv.start_date, inv.end_date,
                                 [fetch |-> f.fetch, trading |-> f.trading,
                                  quote |-> f.quote, lenient |-> f.lenient,
                                  has_volume |-> v]))

Get_stocks_list ==
    /\ inv.op = "GET /api/stocks/list"
    /\ done = 0
    /\ \E w \in [listing : Listings, names : [1..MaxTickers -> NameOutcomes]] :
          Finish(stocks_get_stock_list(w))

Get_stocks_price ==
    /\ inv.op = "GET /api/stocks/{code}/price"
    /\ done = 0
    /\ \E vn \in NameOutcomes, n \in NameOutcomes, f \in FetchWorlds :
          Finish(stocks_get_stock_price(inv.code, inv.query.start_date, inv.query.end_date,
                                        [vname |-> vn, name |-> n, fetch |-> f.fetch,
                                         trading |-> f.trading, quote |-> f.quote,
                                         lenient |-> f.lenient]))

Get_market_kospi ==
    /\ inv.op = "GET /api/market/kospi"
    /\ done = 0
    /\ \E f \in FetchWorlds, v \in BOOLEAN :
          Finish(market_get_kospi_index(inv.query.start_date, inv.query.end_date,
                                        [fetch |-> f.fetch, trading |-> f.trading,
                                         quote |-> f.quote, lenient |-> f.lenient,
                                         has_volume |-> v]))

Get_market_status ==
    /\ inv.op = "GET /api/market/status"
    /\ done = 0
    /\ \E w \in [listing : Listings] :
          Finish(market_get_market_status(inv.clock, w))

Get_health ==
    /\ inv.op = "GET /health"
    /\ done = 0
    /\ \E w \in [listing : Listings] :
          Finish(health_check(inv.clock, w))

\* no handler is being executed
Idle == [handler |-> "none", calls |-> 0, in_call |-> FALSE]

Init ==
    /\ inv \in Invocations
    /\ done = 0
    /\ result = NoResult
    /\ log = <<>>
    /\ lookups = 0
    /\ waiting = <<>>
    /\ running = Idle

Next ==
    \/ Call_validate_date_format
    \/ Call_validate_stock_code
    \/ Call_get_stock_list
    \/ Call_get_stock_price
    \/ Call_get_kospi_index
    \/ Get_stocks_list
    \/ Get_stocks_price
    \/ Get_market_kospi
    \/ Get_market_status
    \/ Get_health

Spec == Init /\ [][Next]_vars

----------------------------------------------------------------------------
(* The server: uvicorn runs the application on one event loop.  Every      *)
(* handler is an "async def" without an await, and the KRXService methods  *)
(* it calls are plain functions that call the provider synchronously, so   *)
(* the loop's thread executes a handler from its first statement to its    *)
(* return, provider calls included, before it starts another.              *)

Handlers == {"health_check", "get_market_status", "get_stock_list", "get_stock_price",
             "get_kospi_index"}

\* how many provider calls one execution of a handler can issue
ProviderCalls(handler) ==
    CASE handler = "get_stock_list" -> 1..(1 + MaxTickers)
      [] handler = "get_stock_price" -> 0..3
      [] handler = "get_kospi_index" -> 0..1
      [] OTHER -> {0}

\* a client's request reaches the server
Arrive ==
    /\ Len(waiting) < MaxWaiting
    /\ \E h \in Handlers : waiting' = Append(waiting, h)
    /\ UNCHANGED <<inv, done, result, log, lookups, running>>

\* the loop's thread, executing no handler, starts the oldest waiting request
Dispatch ==
    /\ running = Idle
    /\ waiting # <<>>
    /\ \E n \in ProviderCalls(Head(waiting)) :
          running' = [handler |-> Head(waiting), calls |-> n, in_call |-> FALSE]
    /\ waiting' = Tail(waiting)
    /\ UNCHANGED <<inv, done, result, log, lookups>>

\* the handler calls the provider: the thread is inside the call until it ends
EnterProviderCall ==
    /\ running.handler # "none"
    /\ ~running.in_call
    /\ running.calls > 0
    /\ running' = [running EXCEPT !.in_call = TRUE]
    /\ UNCHANGED <<inv, done, result, log, lookups, waiting>>

\* the provider call returns or raises
LeaveProviderCall ==
    /\ running.in_call
    /\ running' = [running EXCEPT !.in_call = FALSE, !.calls = running.calls - 1]
    /\ UNCHANGED <<inv, done, result, log, lookups, waiting>>

\* the handler returns or raises and its response is sent
Complete ==
    /\ running.handler # "none"
    /\ ~running.in_call
    /\ running.calls = 0
    /\ running' = Idle
    /\ UNCHANGED <<inv, done, result, log, lookups, waiting>>

ServerInit ==
    /\ inv = [op |-> "serve"]
    /\ done = 0
    /\ result = NoResult
    /\ log = <<>>
    /\ lookups = 0
    /\ waiting = <<>>
    /\ running = Idle

ServerNext ==
    \/ Arrive
    \/ Dispatch
    \/ EnterProviderCall
    \/ LeaveProviderCall
    \/ Complete

ServerSpec == ServerInit /\ [][ServerNext]_vars

----------------------------------------------------------------------------
(* The YYYYMMDD calendar dates, stated independently of the parser *)

RealCalendarDate(s) ==
    /\ Len(s) = 8
    /\ \A i \in 1..8 : s[i] \in Digits
    /\ LET y == ToInt(SubSeq(s, 1, 4))
           m == ToInt(SubSeq(s, 5, 6))
           d == ToInt(SubSeq(s, 7, 8))
       IN  /\ y >= 1
           /\ m \in 1..12
           /\ d >= 1
           /\ d <= (CASE m \in {1, 3, 5, 7, 8, 10, 12} -> 31
                      [] m \in {4, 6, 9, 11} -> 30
                      [] OTHER -> IF y % 400 = 0 \/ (y % 4 = 0 /\ y % 100 # 0)
                                  THEN 29 ELSE 28)

\* a date parameter that is missing or is not a YYYYMMDD calendar date
InvalidDateParam(p) == ~p.present \/ ~RealCalendarDate(p.value)

PriceRequest == inv.op = "GET /api/stocks/{code}/price" /\ done > 0
KospiRequest == inv.op = "GET /api/market/kospi" /\ done > 0

\* the provider functions called by the last execution, in order
Fns == [i \in 1..Len(log) |-> log[i].fn]

Issued(fn) == \E i \in 1..Len(log) : log[i].fn = fn

\* a name lookup's outcome is a non-empty display name
Resolved(o) == o.kind = "return" /\ o.val # ""

----------------------------------------------------------------------------
(* Properties *)

\* C1: on GET /api/stocks/{code}/price with both dates accepted, a code that
\* validate_stock_code rejects is answered 404 (not 500) and no OHLCV fetch is
\* issued during the request.
C1_RejectedCodeIs404 ==
    (/\ PriceRequest
     /\ ~InvalidDateParam(inv.query.start_date)
     /\ ~InvalidDateParam(inv.query.end_date)
     /\ log # <<>>
     /\ validate_stock_code(inv.code, [vname |-> log[1].out]).res = Ret(FALSE))
        => (/\ result.status = 404
            /\ ~Issued("get_market_ohlcv_by_date"))

C1_Witness ==
    /\ PriceRequest
    /\ ~InvalidDateParam(inv.query.start_date)
    /\ ~InvalidDateParam(inv.query.end_date)
    /\ Fns = <<"get_market_ticker_name">>
    /\ log[1].out = Ret("")
    /\ result.status = 404

\* C2: on both date-taking endpoints every request whose start_date or end_date
\* is missing or malformed is answered 400 with a message naming the first
\* invalid field.
C2_BadDateIs400 ==
    ((PriceRequest \/ KospiRequest)
        /\ (InvalidDateParam(inv.query.start_date) \/ InvalidDateParam(inv.query.end_date)))
        => (/\ result.status = 400
            /\ result.detail = IF InvalidDateParam(inv.query.start_date)
                               THEN <<"bad start date format">>
                               ELSE <<"bad end date format">>)

\* C3: on both date-taking endpoints a request rejected for a date has issued
\* no provider call, and a request with an invalid date is answered as a date
\* error, never as 404, whatever the stock code.
C3_DatesBeforeProvider ==
    (PriceRequest \/ KospiRequest)
        => (/\ result.status \in {400, 422} => log = <<>>
            /\ (InvalidDateParam(inv.query.start_date) \/ InvalidDateParam(inv.query.end_date))
                  => (result.status \in {400, 422} /\ log = <<>>))

C3_Witness ==
    /\ PriceRequest
    /\ inv.query.start_date = Present(D20240101)
    /\ inv.query.end_date = Present(D20231301)
    /\ result.status = 400
    /\ log = <<>>

\* C4: validate_date_format(s) is true exactly for the 8-digit YYYYMMDD strings
\* that name a real calendar date; every other string yields false.
C4_DateFormatIffRealDate ==
    (inv.op = "validate_date_format" /\ done > 0)
        => (result = Ret(RealCalendarDate(inv.date_str)))

\* C5: validate_stock_code(code) is true iff the provider's name lookup for
\* code returns a non-empty name; each invocation issues exactly one name
\* lookup for that code, so k invocations issue k lookups.
C5_StockCodeIffResolved ==
    (inv.op = "validate_stock_code" /\ done > 0)
        => (/\ Fns = <<"get_market_ticker_name">>
            /\ log[1].args = <<inv.code>>
            /\ lookups = done
            /\ result = Ret(Resolved(log[1].out)))

C5_Witness ==
    /\ inv.op = "validate_stock_code"
    /\ done >= 2
    /\ lookups = done
    /\ log[1].out = Ret("")
    /\ result = Ret(FALSE)

\* C6: neither validator raises: for every string and every provider outcome
\* the execution ends by returning a boolean.
C6_ValidatorsReturnBoolean ==
    (inv.op \in {"validate_date_format", "validate_stock_code"} /\ done > 0)
        => (result.kind = "return" /\ result.val \in BOOLEAN)

C6_Witness ==
    \/ /\ inv.op = "validate_stock_code"
       /\ done > 0
       /\ log[1].out.kind = "raise"
       /\ result = Ret(FALSE)
    \/ /\ inv.op = "validate_date_format"
       /\ done > 0
       /\ inv.date_str = <<"b", "a", "d">>
       /\ result = Ret(FALSE)

\* C7: every StockListResponse returned by get_stock_list has count equal to
\* the length of stocks, however many name lookups fail.
C7_CountIsLength ==
    /\ (inv.op = "get_stock_list" /\ done > 0 /\ result.kind = "return")
          => result.val.count = Len(result.val.stocks)
    /\ (inv.op = "GET /api/stocks/list" /\ done > 0 /\ result.status = 200)
          => result.body.count = Len(result.body.stocks)

C7_Witness ==
    /\ inv.op = "get_stock_list"
    /\ done > 0
    /\ result.kind = "return"
    /\ Len(log) = 3
    /\ log[2].out.kind = "raise"
    /\ result.val.count = 1

\* the StockInfo records of the tickers whose lookup (the call after the
\* listing call at the same position) did not fail, in listing order
Kept(tickers) ==
    LET ok == SelectSeq([i \in 1..Len(tickers) |-> i],
                        LAMBDA i : log[1 + i].out.kind = "return")
    IN  [k \in 1..Len(ok) |-> [code |-> tickers[ok[k]], name |-> log[1 + ok[k]].out.val]]

\* C8: get_stock_list fails only if the listing call fails; otherwise every
\* listed ticker is looked up once, in order, and the result holds exactly the
\* tickers whose lookup succeeded, in the provider's order.
C8_FailedLookupIsSkipped ==
    (inv.op = "get_stock_list" /\ done > 0)
        => (/\ log # <<>>
            /\ log[1].fn = "get_market_ticker_list"
            /\ (result.kind = "raise") <=> (log[1].out.kind = "raise")
            /\ log[1].out.kind = "return"
                  => (/\ Len(log) = 1 + Len(log[1].out.val)
                      /\ \A i \in 1..Len(log[1].out.val) :
                            /\ log[1 + i].fn = "get_market_ticker_name"
                            /\ log[1 + i].args = <<log[1].out.val[i]>>
                      /\ result.val.stocks = Kept(log[1].out.val)))

C8_Witness ==
    /\ inv.op = "get_stock_list"
    /\ done > 0
    /\ result.kind = "return"
    /\ Len(log) = 4
    /\ log[2].out.kind = "raise"
    /\ log[3].out.kind = "return"
    /\ log[4].out.kind = "raise"
    /\ Len(result.val.stocks) = 1

\* C9: the bars of a successful get_stock_price are non-empty, strictly
\* ascending by date, and every date lies in [start_date, end_date].
C9_BarsAscendingInRange ==
    (inv.op = "get_stock_price" /\ done > 0 /\ result.kind = "return")
        => LET bars == result.val.prices IN
           /\ bars # <<>>
           /\ \A i, j \in 1..Len(bars) : i < j => bars[i].date < bars[j].date
           /\ ProviderDate(inv.start_date) /\ ProviderDate(inv.end_date)
           /\ \A i \in 1..Len(bars) :
                 ToInt(inv.start_date) <= bars[i].date /\ bars[i].date <= ToInt(inv.end_date)

C9_Witness ==
    /\ inv.op = "get_stock_price"
    /\ done > 0
    /\ result.kind = "return"
    /\ inv.start_date = D20240115
    /\ inv.end_date = D20240131
    /\ Len(result.val.prices) = 2

\* C10: get_stock_price fails, without issuing a fetch, when the name is not
\* resolved; it fails when the fetch returns no rows; and a range with
\* start_date > end_date always ends in failure.
C10_FailsUnresolvedOrEmpty ==
    (inv.op = "get_stock_price" /\ done > 0)
        => (/\ log # <<>>
            /\ log[1].fn = "get_market_ticker_name"
            /\ ~Resolved(log[1].out)
                  => (result.kind = "raise" /\ ~Issued("get_market_ohlcv_by_date"))
            /\ (Len(log) >= 2 /\ log[2].out = Ret(<<>>)) => result.kind = "raise"
            /\ (/\ ProviderDate(inv.start_date)
                /\ ProviderDate(inv.end_date)
                /\ ToInt(inv.start_date) > ToInt(inv.end_date))
                  => result.kind = "raise")

C10_Witness ==
    /\ inv.op = "get_stock_price"
    /\ done > 0
    /\ inv.start_date = D20240131
    /\ inv.end_date = D20240101
    /\ Fns = <<"get_market_ticker_name", "get_market_ohlcv_by_date">>
    /\ log[2].out = Ret(<<>>)
    /\ result.kind = "raise"

\* the integer part of a value in tenths: the integer nearest to zero-side of it
\* (floor for a non-negative value, ceiling for a negative one)
TowardZero(x) ==
    LET floor == x \div 10
    IN  IF x < 0 /\ x % 10 # 0 THEN floor + 1 ELSE floor

\* C11: a successful get_stock_price returns the requested code, a non-empty
\* name, and one bar per row of the provider's frame in the frame's order; each
\* bar has the row's date and the row's open, high, low and close truncated
\* toward zero, never rounded.
C11_BarsAreTruncatedRows ==
    (inv.op = "get_stock_price" /\ done > 0 /\ result.kind = "return")
        => (/\ result.val.code = inv.code
            /\ result.val.name # ""
            /\ Fns = <<"get_market_ticker_name", "get_market_ohlcv_by_date">>
            /\ result.val.name = log[1].out.val
            /\ LET rows == log[2].out.val
                   bars == result.val.prices
               IN  /\ Len(bars) = Len(rows)
                   /\ \A i \in 1..Len(rows) :
                         /\ bars[i].date = rows[i].date
                         /\ bars[i].open = TowardZero(rows[i].row.open)
                         /\ bars[i].high = TowardZero(rows[i].row.high)
                         /\ bars[i].low = TowardZero(rows[i].row.low)
                         /\ bars[i].close = TowardZero(rows[i].row.close))

C11_Witness ==
    /\ inv.op = "get_stock_price"
    /\ done > 0
    /\ result.kind = "return"
    /\ Len(result.val.prices) = 3
    /\ log[2].out.val[1].row.open = -15
    /\ log[2].out.val[1].row.high = 19
    /\ result.val.prices[1].open = -1
    /\ result.val.prices[1].high = 1

\* C12: get_kospi_index issues one index fetch with the fixed code "1001"; it
\* fails if the fetch fails or returns no rows; when it returns, the response
\* names the index "KOSPI" with code "1001" and holds one bar per row, in row
\* order, whose volume is absent exactly when the row has no volume column and
\* is the row's volume as an integer otherwise. With rows present it returns
\* unless a row's volume cannot be converted.
C12_FixedIndexOptionalVolume ==
    (inv.op = "get_kospi_index" /\ done > 0)
        => (/\ Fns = <<"get_index_ohlcv_by_date">>
            /\ log[1].args = <<inv.start_date, inv.end_date, "1001">>
            /\ (log[1].out.kind = "raise" \/ log[1].out.val = <<>>)
                  => result.kind = "raise"
            /\ (/\ log[1].out.kind = "return"
                /\ log[1].out.val # <<>>
                /\ \A i \in 1..Len(log[1].out.val) :
                      ~("volume" \in log[1].out.val[i].columns /\ log[1].out.val[i].row.nan))
                  => result.kind = "return"
            /\ result.kind = "return"
                  => LET rows == log[1].out.val
                         bars == result.val.prices
                     IN  /\ result.val.index_name = "KOSPI"
                         /\ result.val.index_code = "1001"
                         /\ Len(bars) = Len(rows)
                         /\ \A i \in 1..Len(rows) :
                               /\ bars[i].date = rows[i].date
                               /\ ("volume" \notin rows[i].columns) <=> (bars[i].volume = <<>>)
                               /\ "volume" \in rows[i].columns
                                     => bars[i].volume = <<TowardZero(rows[i].row.volume)>>)

C12_Witness ==
    /\ inv.op = "get_kospi_index"
    /\ done > 0
    /\ result.kind = "return"
    /\ Len(result.val.prices) = 2
    /\ "volume" \in log[1].out.val[1].columns
    /\ log[1].out.val[1].row.volume = 1500
    /\ result.val.prices[1].volume = <<150>>

\* The text of the first failure inside a facade operation, read from the
\* provider calls L it issued (<<>> when nothing failed).

ListCause(L) ==
    IF L[1].out.kind = "raise" THEN L[1].out.msg ELSE <<>>

PriceCause(L, code) ==
    IF L[1].out.kind = "raise" THEN L[1].out.msg
    ELSE IF L[1].out.val = "" THEN <<"code not found: ", code>>
    ELSE IF L[2].out.kind = "raise" THEN L[2].out.msg
    ELSE IF L[2].out.val = <<>> THEN <<"no price data in range">>
    ELSE IF \E i \in 1..Len(L[2].out.val) : L[2].out.val[i].row.nan
    THEN <<"cannot convert float NaN to integer">>
    ELSE <<>>

IndexCause(L) ==
    IF L[1].out.kind = "raise" THEN L[1].out.msg
    ELSE IF L[1].out.val = <<>> THEN <<"no KOSPI data in range">>
    ELSE IF \E i \in 1..Len(L[1].out.val) :
                "volume" \in L[1].out.val[i].columns /\ L[1].out.val[i].row.nan
    THEN <<"cannot convert float NaN to integer">>
    ELSE <<>>

\* C13: each facade operation either returns a response or raises one
\* Exception whose message is the operation's own prefix followed by the text
\* of the failure that occurred inside it (provider error, empty result,
\* unresolved name, row conversion failure); it returns when nothing failed.
C13_FailureIsRewrapped ==
    /\ (inv.op = "get_stock_list" /\ done > 0)
          => IF ListCause(log) = <<>> THEN result.kind = "return"
             ELSE result = Raise("Exception", <<"stock list failed: ">> \o ListCause(log))
    /\ (inv.op = "get_stock_price" /\ done > 0)
          => IF PriceCause(log, inv.code) = <<>> THEN result.kind = "return"
             ELSE result = Raise("Exception",
                                 <<"stock price failed: ">> \o PriceCause(log, inv.code))
    /\ (inv.op = "get_kospi_index" /\ done > 0)
          => IF IndexCause(log) = <<>> THEN result.kind = "return"
             ELSE result = Raise("Exception", <<"KOSPI index failed: ">> \o IndexCause(log))

C13_Witness ==
    /\ inv.op = "get_stock_price"
    /\ done > 0
    /\ Len(log) = 2
    /\ log[2].out = Raise("ConnectionError", <<"ConnectionError">>)
    /\ result = Raise("Exception", <<"stock price failed: ", "ConnectionError">>)

ListRequest == inv.op = "GET /api/stocks/list" /\ done > 0

\* the 8-digit date parameters that pass the framework's check and fail
\* the handler's
RejectedByHandler(q) ==
    /\ QueryOk(q.start_date) /\ QueryOk(q.end_date)
    /\ ~RealCalendarDate(q.start_date.value) \/ ~RealCalendarDate(q.end_date.value)

\* C14: on the three read endpoints, a facade call that raised is answered 500
\* with the handler's prefix followed by the facade's message (an empty result
\* and a provider error alike), a facade call that returned is answered 200
\* with the facade's response as the body, and the handler's own 400 and 404
\* reach the client as 400 and 404: a 500 is only ever the answer to a failed
\* facade call.
C14_FacadeErrorIs500 ==
    /\ (PriceRequest /\ Len(log) >= 2)
          => LET L == Tail(log)
                 cause == PriceCause(L, inv.code)
             IN  IF cause # <<>>
                 THEN result = Response(500, <<"stock price failed: ", "stock price failed: ">>
                                               \o cause)
                 ELSE /\ result.status = 200
                      /\ result.body =
                            [code |-> inv.code, name |-> L[1].out.val,
                             prices |-> [i \in 1..Len(L[2].out.val) |->
                                           StockPrice(L[2].out.val[i]).val]]
    /\ (PriceRequest /\ Len(log) < 2) => result.status # 500
    /\ (PriceRequest /\ RejectedByHandler(inv.query)) => result.status = 400
    /\ (PriceRequest /\ Len(log) = 1) => result.status = 404
    /\ (KospiRequest /\ log # <<>>)
          => LET cause == IndexCause(log)
                 rows == log[1].out.val
             IN  IF cause # <<>>
                 THEN result = Response(500, <<"KOSPI index failed: ", "KOSPI index failed: ">>
                                               \o cause)
                 ELSE /\ result.status = 200
                      /\ result.body =
                            [index_name |-> "KOSPI", index_code |-> "1001",
                             prices |-> [i \in 1..Len(rows) |->
                                           IndexPrice(rows[i], "volume" \in rows[i].columns).val]]
    /\ (KospiRequest /\ log = <<>>) => result.status # 500
    /\ (KospiRequest /\ RejectedByHandler(inv.query)) => result.status = 400
    /\ ListRequest
          => IF ListCause(log) # <<>>
             THEN result = Response(500, <<"stock list failed: ", "stock list failed: ">>
                                           \o ListCause(log))
             ELSE /\ result.status = 200
                  /\ result.body = [count |-> Len(Kept(log[1].out.val)),
                                    stocks |-> Kept(log[1].out.val)]

C14_Witness ==
    /\ KospiRequest
    /\ Len(log) = 1
    /\ log[1].out = Ret(<<>>)
    /\ result = Response(500, <<"KOSPI index failed: ", "KOSPI index failed: ",
                                "no KOSPI data in range">>)

\* a provider call that failed
Failed(c) == c.out.kind = "raise"

\* a provider call that returned an empty result (no name, no rows)
Empty(c) ==
    /\ c.out.kind = "return"
    /\ IF c.fn = "get_market_ticker_name" THEN c.out.val = "" ELSE c.out.val = <<>>

\* C15: on GET /api/stocks/{code}/price every provider call that fails or
\* returns an empty result is answered with a 5xx status, except the ticker
\* that is not found (the first name lookup returns no name), which is
\* answered 404; a 404 is only ever given for such a ticker, and no OHLCV
\* fetch has been issued when it is given.
C15_ProviderFailureIs5xx ==
    PriceRequest
        => (/\ \A i \in 1..Len(log) :
                  (Failed(log[i]) \/ Empty(log[i]))
                      => \/ result.status \in 500..599
                         \/ (i = 1 /\ Empty(log[1]) /\ result.status = 404)
            /\ result.status = 404
                  => (/\ log # <<>>
                      /\ Empty(log[1])
                      /\ ~Issued("get_market_ohlcv_by_date")))

StatusRequest == inv.op = "GET /api/market/status" /\ done > 0

\* the clock's reading as Seoul's second of the week (Monday 00:00:00 is 0)
SeoulSecond(clock) ==
    (clock.weekday * 86400 + clock.hour * 3600 + clock.minute * 60 + clock.second
        + 9 * 3600) % (7 * 86400)

\* Seoul's time of day lies in 09:00:00..15:30:00, both included, on a day
\* from Monday to Friday
InTradingWindow(clock) ==
    LET day == SeoulSecond(clock) \div 86400
        tod == SeoulSecond(clock) % 86400
    IN  /\ day \in 0..4
        /\ 9 * 3600 <= tod
        /\ \/ tod < 15 * 3600 + 30 * 60
           \/ tod = 15 * 3600 + 30 * 60 /\ clock.microsecond = 0

\* C16: GET /api/market/status answers OPEN iff the time in Asia/Seoul lies in
\* 09:00:00..15:30:00 of that local day, both bounds included, and the local
\* weekday is Monday to Friday, and CLOSED otherwise; Wednesday 10:00 local is
\* OPEN and Saturday 10:00 local is CLOSED.
C16_OpenIffInWindow ==
    StatusRequest
        => (/\ result.status = 200
            /\ result.body.status = IF InTradingWindow(inv.clock) THEN "OPEN" ELSE "CLOSED"
            /\ (inv.clock.hour = 1 /\ inv.clock.minute = 0 /\ inv.clock.second = 0
                    /\ inv.clock.microsecond = 0)
                  => (/\ inv.clock.weekday = 2 => result.body.status = "OPEN"
                      /\ inv.clock.weekday = 5 => result.body.status = "CLOSED"))

C16_Witness ==
    /\ StatusRequest
    /\ inv.clock = [weekday |-> 4, hour |-> 6, minute |-> 30, second |-> 0,
                    microsecond |-> 0]
    /\ result.body.status = "OPEN"

\* C17: a provider call does not stall unrelated requests: whenever the
\* handler of one request is inside a provider call and another request (for
\* instance GET /health or GET /api/market/status) is waiting, the waiting
\* request can be started.
C17_ProviderCallDoesNotStall ==
    (/\ running.in_call
     /\ waiting # <<>>
     /\ Head(waiting) \in {"health_check", "get_market_status"})
        => ENABLED Dispatch

\* the execution ended in the operation's failure outcome: an exception, an
\* error response, or False from a validator
EndedInError ==
    \/ result.kind = "raise"
    \/ result.kind = "response" /\ result.status >= 400
    \/ inv.op = "validate_stock_code" /\ result.kind = "return" /\ result.val = FALSE

\* C18: no failed provider call is retried.  In get_stock_list (direct or
\* behind GET /api/stocks/list) a failed listing call is the only call and
\* ends in the error; otherwise there is exactly one name lookup per position
\* of the listing, in order, so a failed lookup is followed only by the lookup
\* of the next position.  In every other operation a failed provider call is
\* the last call of the execution, which ends in the error outcome.
C18_FailedCallIsNotRetried ==
    done > 0
        => IF inv.op \in {"get_stock_list", "GET /api/stocks/list"}
           THEN /\ Failed(log[1]) => (Len(log) = 1 /\ EndedInError)
                /\ ~Failed(log[1])
                      => (/\ Len(log) = 1 + Len(log[1].out.val)
                          /\ \A i \in 1..Len(log[1].out.val) :
                                /\ log[1 + i].fn = "get_market_ticker_name"
                                /\ log[1 + i].args = <<log[1].out.val[i]>>
                          /\ ~EndedInError)
           ELSE \A i \in 1..Len(log) :
                   Failed(log[i]) => (i = Len(log) /\ EndedInError)

C18_Witness ==
    /\ inv.op = "GET /api/stocks/{code}/price"
    /\ done > 0
    /\ Len(log) = 3
    /\ Failed(log[3])
    /\ log[3].fn = "get_market_ohlcv_by_date"
    /\ result.status = 500

HealthRequest == inv.op = "GET /health" /\ done > 0

\* the provider's states: listing available, empty, or failing
ProviderStates == [listing : Listings]

\* C19: GET /health and GET /api/market/status issue no provider call and
\* their answer is the same under every provider state (available, failing,
\* returning nothing): /health is always 200 with status "healthy" and version
\* "1.0.0", and the market status is the one the clock alone determines.
C19_NoProviderDependency ==
    /\ HealthRequest
          => (/\ log = <<>>
              /\ lookups = 0
              /\ result.status = 200
              /\ result.body.status = "healthy"
              /\ result.body.version = "1.0.0"
              /\ \A w \in ProviderStates : result = health_check(inv.clock, w).res)
    /\ StatusRequest
          => (/\ log = <<>>
              /\ lookups = 0
              /\ result.status = 200
              /\ result.body.status \in {"OPEN", "CLOSED"}
              /\ (result.body.status = "OPEN") <=> InTradingWindow(inv.clock)
              /\ \A w \in ProviderStates :
                    result = market_get_market_status(inv.clock, w).res)

C19_Witness ==
    /\ HealthRequest
    /\ log = <<>>
    /\ result.status = 200
    /\ result.body.status = "healthy"
    /\ result.body.timestamp.weekday = 6

\* C20: a GET /api/stocks/{code}/price answered 200 has issued exactly three
\* provider calls, in order: the validator's name lookup, the facade's name
\* lookup for the same code, and one OHLCV fetch for the code and the two
\* dates.  The lookups are independent: when the first resolves a name and the
\* second returns no name or fails, the answer is 500, not 404, and no OHLCV
\* fetch is issued.
C20_TwoLookupsThenFetch ==
    PriceRequest
        => (/\ result.status = 200
                  => (/\ Fns = <<"get_market_ticker_name", "get_market_ticker_name",
                                 "get_market_ohlcv_by_date">>
                      /\ log[1].args = <<inv.code>>
                      /\ log[2].args = <<inv.code>>
                      /\ log[3].args = <<inv.query.start_date.value,
                                         inv.query.end_date.value, inv.code>>)
            /\ (Len(log) >= 2 /\ Resolved(log[1].out) /\ ~Resolved(log[2].out))
                  => (/\ result.status = 500
                      /\ Len(log) = 2
                      /\ ~Issued("get_market_ohlcv_by_date"))
            /\ (log # <<>> /\ Resolved(log[1].out))
                  => (/\ Len(log) >= 2
                      /\ log[2].fn = "get_market_ticker_name"
                      /\ log[2].args = <<inv.code>>))

C20_Witness ==
    /\ PriceRequest
    /\ Len(log) = 2
    /\ log[1].out = Ret("Samsung")
    /\ log[2].out = Ret("")
    /\ result.status = 500

====
